---- MODULE Spec2Model ----
(***************************************************************************)
(* State-machine model of the InfiniteScroll React component              *)
(* (src/unnamed/part_000): the items/total store, the fetch sequencing    *)
(* with its single-flight guard, the imperative handle, and the render /  *)
(* effect cycle that refreshes the closures and refs the handlers read.   *)
(*                                                                         *)
(* React state (items, total, isServerOut, initialLoadComplete) is held   *)
(* with every queued updater applied: updaters are applied in queue order *)
(* so this is the value the next render will see.  What the LAST render   *)
(* saw is held separately (itemsRef, hasMoreItems, the sentinel refs),    *)
(* because loadMoreItems and getItems read that snapshot.                 *)
(***************************************************************************)
EXTENDS Integers, Sequences, FiniteSets, Bags, TLC

\* ---------------------------------------------------------------- bounds
NumValues == 2
MaxLen == 2
MaxBatch == 2
MaxTotal == 2
TotalSlack == 1
MaxInflight == 2
SourceLen == 3

Item == 1..NumValues
\* predicates by the set of items they accept: none, the items equal to 1, all
Predicate == {{}, {1}, Item}
KeyExtractors == {"none", "id"}

RECURSIVE SeqsUpTo(_)
SeqsUpTo(n) ==
    IF n = 0 THEN {<<>>}
    ELSE LET shorter == SeqsUpTo(n - 1)
         IN shorter \cup {Append(s, x) : s \in {t \in shorter : Len(t) = n - 1}, x \in Item}

Batch == SeqsUpTo(MaxBatch)
Totals == 0..MaxTotal

\* ----------------------------------------------------------------- state
VARIABLES
    items,                \* useState items, all queued updaters applied
    total,                \* useState total
    isServerOut,          \* useState error flag
    initialLoadComplete,  \* useState "first resolution observed"
    isLoadingRef,         \* the single-flight guard (a ref: read live)
    itemsRef,             \* mirror of items written by the [items] effect
    hasMoreItems,         \* the render-time constant captured by loadMoreItems
    sentinelaStartRef,    \* TRUE iff the start sentinel is mounted
    sentinelaEndRef,      \* TRUE iff the end sentinel is mounted
    observed,             \* TRUE iff the live observer watches a mounted sentinel
    mounted,              \* TRUE once the mount effects have run
    keyExtractor,         \* props.keyExtractor: "none" when absent
    reverse,              \* props.reverse
    inflight,             \* bag of data-source calls not yet settled
    last                  \* the handler that ran last, with its inputs

vars == <<items, total, isServerOut, initialLoadComplete, isLoadingRef,
          itemsRef, hasMoreItems, sentinelaStartRef, sentinelaEndRef,
          observed, mounted, keyExtractor, reverse, inflight, last>>

store == <<items, total, isServerOut, initialLoadComplete>>
rendered == <<itemsRef, hasMoreItems, sentinelaStartRef, sentinelaEndRef, observed>>
props == <<keyExtractor, reverse>>

\* the handlers that run when a data-source call settles
Settlements == {"loadMoreResolve", "loadMoreReject", "reloadResolve", "reloadReject"}

\* The record of a handler run: its name and inputs, the number of data-source
\* calls it made, the error flag it found (err) and, for a settlement, the
\* handler that ran just before it (after).
Did(op, arg, T, pred, calls) ==
    [op |-> op, arg |-> arg, T |-> T, pred |-> pred, calls |-> calls,
     err |-> isServerOut,
     after |-> IF op \in Settlements THEN last.op ELSE "-"]

\* ------------------------------------------------------- pure functions
\* total === 0 || items.length < total
HasMore(its, tot) == tot = 0 \/ Len(its) < tot

\* variant: without a key function the item itself is the key
KeyDefaultsToItem(item, index) == item

\* props.keyExtractor?.(item, index) ?? index   (index is 0-based)
Key(item, index) ==
    CASE keyExtractor = "none" -> index
      [] keyExtractor = "id" -> item

\* Array.prototype.filter with a predicate on the (1-based) position
RECURSIVE FilterIdx(_, _, _)
FilterIdx(s, keep, i) ==
    IF i > Len(s) THEN <<>>
    ELSE IF i \in keep THEN <<s[i]>> \o FilterIdx(s, keep, i + 1)
         ELSE FilterIdx(s, keep, i + 1)

\* variant: the incoming key computed with the batch-local index
LoadMoreMergeLocalIndex(prev, resp) ==
    LET existingKeys == {Key(prev[p], p - 1) : p \in 1..Len(prev)}
        keep == {i \in 1..Len(resp) : Key(resp[i], i - 1) \notin existingKeys}
    IN prev \o FilterIdx(resp, keep, 1)

\* variant: loadMore appends the whole response
LoadMoreMergeAppendsAll(prev, resp) == prev \o resp

\* the setItems updater of loadMoreItems
LoadMoreMerge(prev, resp) ==
    LET existingKeys == {Key(prev[p], p - 1) : p \in 1..Len(prev)}
        keep == {i \in 1..Len(resp) :
                    Key(resp[i], (i - 1) + Len(prev)) \notin existingKeys}
    IN prev \o FilterIdx(resp, keep, 1)

\* the setItems updater of resetAndReload: filter with a growing key set
RECURSIVE ReloadFilter(_, _, _)
ReloadFilter(resp, i, keys) ==
    IF i > Len(resp) THEN <<>>
    ELSE LET key == Key(resp[i], i - 1)
         IN IF key \in keys THEN ReloadFilter(resp, i + 1, keys)
            ELSE <<resp[i]>> \o ReloadFilter(resp, i + 1, keys \cup {key})

\* variant: the response stored as received
ReloadItemsAsReceived(resp) == resp

ReloadItems(resp) == ReloadFilter(resp, 1, {})

\* variant: only the first matching entry replaced
ReplaceItemsFirst(prev, pred, updatedItem) ==
    [p \in 1..Len(prev) |->
        IF prev[p] \in pred /\ \A q \in 1..(p - 1) : prev[q] \notin pred
        THEN updatedItem ELSE prev[p]]

\* prev.map(item => predicate(item) ? updatedItem : item)
ReplaceItems(prev, pred, updatedItem) ==
    [p \in 1..Len(prev) |-> IF prev[p] \in pred THEN updatedItem ELSE prev[p]]

\* prev.filter(item => !predicate(item))
RemoveItems(prev, pred) ==
    FilterIdx(prev, {p \in 1..Len(prev) : prev[p] \notin pred}, 1)

\* variant: the new item put first
PushItemsFront(prev, newItem) == <<newItem>> \o prev

\* [...prev, newItem]
PushItems(prev, newItem) == Append(prev, newItem)

\* variant: the new item put last
UnshiftItemsBack(prev, newItem) == Append(prev, newItem)

\* [newItem, ...prev]
UnshiftItems(prev, newItem) == <<newItem>> \o prev

\* getItems: () => itemsRef.current
GetItemsValue == itemsRef

\* --------------------------------------------------------------- Init
Init ==
    /\ items = <<>>
    /\ total = 0
    /\ isServerOut = FALSE
    /\ initialLoadComplete = FALSE
    /\ isLoadingRef = FALSE
    /\ itemsRef = <<>>
    /\ hasMoreItems = TRUE
    /\ sentinelaStartRef = FALSE
    /\ sentinelaEndRef = FALSE
    /\ observed = FALSE
    /\ mounted = FALSE
    /\ keyExtractor \in KeyExtractors
    /\ reverse = FALSE
    /\ inflight = EmptyBag
    /\ last = Did("init", <<>>, 0, {}, 0)

\* ------------------------------------------------------------- actions
Fetch(kind, offset) == [kind |-> kind, offset |-> offset]

Issue(f) == inflight (+) SetToBag({f})
Settle(f) == inflight (-) SetToBag({f})
InFlight(kind) == {f \in BagToSet(inflight) : f.kind = kind}

\* variant: reload() is skipped while the guard is held
ReloadStartIfIdle ==
    /\ isLoadingRef' = TRUE
    /\ isServerOut' = FALSE
    /\ initialLoadComplete' = FALSE
    /\ inflight' = IF isLoadingRef THEN inflight ELSE Issue(Fetch("reload", 0))
    /\ UNCHANGED <<items, total>>

\* resetAndReload up to its await
ReloadStart ==
    /\ isLoadingRef' = TRUE
    /\ isServerOut' = FALSE
    /\ initialLoadComplete' = FALSE
    /\ inflight' = Issue(Fetch("reload", 0))
    /\ UNCHANGED <<items, total>>

\* variant: mounting does not load the first page
MountWithoutReload ==
    /\ ~mounted
    /\ mounted' = TRUE
    /\ last' = Did("mount", <<>>, 0, {}, 0)
    /\ UNCHANGED <<store, isLoadingRef, inflight, rendered, props>>

\* the mount effects: itemsRef mirror, observer (no sentinel yet), initial reload
Mount ==
    /\ ~mounted
    /\ mounted' = TRUE
    /\ ReloadStart
    /\ last' = Did("mount", <<>>, 0, {}, 1)
    /\ UNCHANGED <<rendered, props>>

\* ref.reload()
Reload ==
    /\ mounted
    /\ BagCardinality(inflight) < MaxInflight
    /\ ReloadStart
    /\ last' = Did("reload", <<>>, 0, {}, 1)
    /\ UNCHANGED <<rendered, props, mounted>>

\* variant: loadMore does not clear the error flag
LoadMoreKeepsError ==
    /\ mounted
    /\ observed
    /\ IF isLoadingRef \/ ~hasMoreItems
       THEN /\ last' = Did("loadMore", <<>>, 0, {}, 0)
            /\ UNCHANGED <<store, isLoadingRef, inflight>>
       ELSE /\ BagCardinality(inflight) < MaxInflight
            /\ isLoadingRef' = TRUE
            /\ inflight' = Issue(Fetch("loadMore", Len(itemsRef)))
            /\ last' = Did("loadMore", <<>>, 0, {}, 1)
            /\ UNCHANGED <<items, total, isServerOut, initialLoadComplete>>
    /\ UNCHANGED <<rendered, props, mounted>>

\* the IntersectionObserver callback with entry.isIntersecting: loadMoreItems()
\* of the last render, up to its await
LoadMore ==
    /\ mounted
    /\ observed
    /\ IF isLoadingRef \/ ~hasMoreItems
       THEN /\ last' = Did("loadMore", <<>>, 0, {}, 0)
            /\ UNCHANGED <<store, isLoadingRef, inflight>>
       ELSE /\ BagCardinality(inflight) < MaxInflight
            /\ isLoadingRef' = TRUE
            /\ isServerOut' = FALSE
            /\ inflight' = Issue(Fetch("loadMore", Len(itemsRef)))
            /\ last' = Did("loadMore", <<>>, 0, {}, 1)
            /\ UNCHANGED <<items, total, initialLoadComplete>>
    /\ UNCHANGED <<rendered, props, mounted>>

\* variant: the finally block releases the guard only
FinallyStillLoading ==
    /\ isLoadingRef' = FALSE
    /\ initialLoadComplete' = initialLoadComplete

\* finally { isLoadingRef.current = false; setInitialLoadComplete(true) }
Finally ==
    /\ isLoadingRef' = FALSE
    /\ initialLoadComplete' = TRUE

\* variant: a loadMore response never lowers total
LoadMoreResolveMaxTotal ==
    \E f \in InFlight("loadMore"), resp \in Batch, T \in Totals :
        LET merged == LoadMoreMerge(items, resp) IN
        /\ Len(merged) <= MaxLen
        /\ items' = merged
        /\ total' = IF T > total THEN T ELSE total
        /\ Finally
        /\ inflight' = Settle(f)
        /\ last' = Did("loadMoreResolve", resp, T, {}, 0)
        /\ UNCHANGED <<isServerOut, rendered, props, mounted>>

\* loadMoreItems after its await, the call having resolved
LoadMoreResolve ==
    \E f \in InFlight("loadMore"), resp \in Batch, T \in Totals :
        LET merged == LoadMoreMerge(items, resp) IN
        /\ Len(merged) <= MaxLen
        /\ items' = merged
        /\ total' = T
        /\ Finally
        /\ inflight' = Settle(f)
        /\ last' = Did("loadMoreResolve", resp, T, {}, 0)
        /\ UNCHANGED <<isServerOut, rendered, props, mounted>>

\* loadMoreItems after its await, the call having rejected
LoadMoreReject ==
    \E f \in InFlight("loadMore") :
        /\ isServerOut' = TRUE
        /\ Finally
        /\ inflight' = Settle(f)
        /\ last' = Did("loadMoreReject", <<>>, 0, {}, 0)
        /\ UNCHANGED <<items, total, rendered, props, mounted>>

\* variant: a resolved reload clears the error flag
ReloadResolveClearsError ==
    \E f \in InFlight("reload"), resp \in Batch, T \in Totals :
        /\ items' = ReloadItems(resp)
        /\ total' = T
        /\ isServerOut' = FALSE
        /\ Finally
        /\ inflight' = Settle(f)
        /\ last' = Did("reloadResolve", resp, T, {}, 0)
        /\ UNCHANGED <<rendered, props, mounted>>

\* resetAndReload after its await, the call having resolved
ReloadResolve ==
    \E f \in InFlight("reload"), resp \in Batch, T \in Totals :
        /\ items' = ReloadItems(resp)
        /\ total' = T
        /\ Finally
        /\ inflight' = Settle(f)
        /\ last' = Did("reloadResolve", resp, T, {}, 0)
        /\ UNCHANGED <<isServerOut, rendered, props, mounted>>

\* variant: a failed reload clears the list
ReloadRejectClears ==
    \E f \in InFlight("reload") :
        /\ items' = <<>>
        /\ isServerOut' = TRUE
        /\ Finally
        /\ inflight' = Settle(f)
        /\ last' = Did("reloadReject", <<>>, 0, {}, 0)
        /\ UNCHANGED <<total, rendered, props, mounted>>

\* resetAndReload after its await, the call having rejected
ReloadReject ==
    \E f \in InFlight("reload") :
        /\ isServerOut' = TRUE
        /\ Finally
        /\ inflight' = Settle(f)
        /\ last' = Did("reloadReject", <<>>, 0, {}, 0)
        /\ UNCHANGED <<items, total, rendered, props, mounted>>

\* ref.replace(predicate, updatedItem)
Replace ==
    \E pred \in Predicate, updatedItem \in Item :
        /\ mounted
        /\ items' = ReplaceItems(items, pred, updatedItem)
        /\ last' = Did("replace", <<updatedItem>>, 0, pred, 0)
        /\ UNCHANGED <<total, isServerOut, initialLoadComplete, isLoadingRef,
                       rendered, props, mounted, inflight>>

\* variant: total decremented by the number of entries removed
RemoveCounted ==
    \E pred \in Predicate :
        /\ mounted
        /\ total > -TotalSlack
        /\ items' = RemoveItems(items, pred)
        /\ total' = total - (Len(items) - Len(RemoveItems(items, pred)))
        /\ last' = Did("remove", <<>>, 0, pred, 0)
        /\ UNCHANGED <<isServerOut, initialLoadComplete, isLoadingRef,
                       rendered, props, mounted, inflight>>

\* ref.remove(predicate)
Remove ==
    \E pred \in Predicate :
        /\ mounted
        /\ total > -TotalSlack
        /\ items' = RemoveItems(items, pred)
        /\ total' = total - 1
        /\ last' = Did("remove", <<>>, 0, pred, 0)
        /\ UNCHANGED <<isServerOut, initialLoadComplete, isLoadingRef,
                       rendered, props, mounted, inflight>>

\* ref.push(newItem)
Push ==
    \E newItem \in Item :
        /\ mounted
        /\ Len(items) < MaxLen
        /\ total < MaxTotal + TotalSlack
        /\ items' = PushItems(items, newItem)
        /\ total' = total + 1
        /\ last' = Did("push", <<newItem>>, 0, {}, 0)
        /\ UNCHANGED <<isServerOut, initialLoadComplete, isLoadingRef,
                       rendered, props, mounted, inflight>>

\* ref.unshift(newItem)
Unshift ==
    \E newItem \in Item :
        /\ mounted
        /\ Len(items) < MaxLen
        /\ total < MaxTotal + TotalSlack
        /\ items' = UnshiftItems(items, newItem)
        /\ total' = total + 1
        /\ last' = Did("unshift", <<newItem>>, 0, {}, 0)
        /\ UNCHANGED <<isServerOut, initialLoadComplete, isLoadingRef,
                       rendered, props, mounted, inflight>>

\* One render and commit with its effects: the render constants are
\* recomputed from the state, the sentinels are mounted by the JSX
\* conditions, the [items] effect refreshes itemsRef, and the observer
\* effect re-runs when loadMoreItems changed (its deps hasMoreItems,
\* items.length or props changed).
Render ==
    \E propsChanged \in BOOLEAN :
        LET more == HasMore(items, total)
            start == initialLoadComplete /\ reverse /\ more
            end == initialLoadComplete /\ ~reverse /\ more
            wasMounted == IF reverse THEN sentinelaStartRef ELSE sentinelaEndRef
            isMounted == IF reverse THEN start ELSE end
            rerun == propsChanged \/ more # hasMoreItems \/ Len(items) # Len(itemsRef)
        IN /\ mounted
           /\ itemsRef' = items
           /\ hasMoreItems' = more
           /\ sentinelaStartRef' = start
           /\ sentinelaEndRef' = end
           /\ observed' = IF rerun THEN isMounted
                          ELSE observed /\ wasMounted /\ isMounted
           /\ last' = Did("render", <<>>, 0, {}, 0)
           /\ UNCHANGED <<store, isLoadingRef, props, mounted, inflight>>

Next ==
    \/ Mount
    \/ Reload
    \/ LoadMore
    \/ LoadMoreResolve
    \/ LoadMoreReject
    \/ ReloadResolve
    \/ ReloadReject
    \/ Replace
    \/ Remove
    \/ Push
    \/ Unshift
    \/ Render

Spec == Init /\ [][Next]_vars

\* a pending data-source call settles: the handler resumes after its await
Settles == LoadMoreResolve \/ LoadMoreReject \/ ReloadResolve \/ ReloadReject

\* the fetch sequencing alone: the handle's mutations touch neither the
\* guard, nor initialLoadComplete, nor the calls in flight
NextFetch ==
    \/ Mount
    \/ Reload
    \/ LoadMore
    \/ LoadMoreResolve
    \/ LoadMoreReject
    \/ ReloadResolve
    \/ ReloadReject
    \/ Render

\* construction with props.keyExtractor reading the item itself
InitKeyed == Init /\ keyExtractor = "id"

\* the fetch sequencing with a data source whose calls all settle eventually
FairSpec == InitKeyed /\ [][NextFetch]_vars /\ WF_vars(Settles)

\* ------------------------------------------- a well-behaved data source
\* props.loadItems serving a fixed duplicate-free sequence: the call at
\* offset k resolves with a contiguous page that starts at position k
\* (at least one and at most MaxBatch items, none past the end) and
\* reports the sequence's length as total
Source == [i \in 1..SourceLen |-> i]

PageAt(k) ==
    LET left == IF k < SourceLen THEN SourceLen - k ELSE 0
        most == IF left < MaxBatch THEN left ELSE MaxBatch
        least == IF most = 0 THEN 0 ELSE 1
    IN {SubSeq(Source, k + 1, k + n) : n \in least..most}

\* loadMoreItems after its await, the call having resolved with a page
LoadMoreResolvePage ==
    \E f \in InFlight("loadMore") : \E resp \in PageAt(f.offset) :
        /\ items' = LoadMoreMerge(items, resp)
        /\ total' = SourceLen
        /\ Finally
        /\ inflight' = Settle(f)
        /\ last' = Did("loadMoreResolve", resp, SourceLen, {}, 0)
        /\ UNCHANGED <<isServerOut, rendered, props, mounted>>

\* resetAndReload after its await, the call having resolved with a page
ReloadResolvePage ==
    \E f \in InFlight("reload") : \E resp \in PageAt(f.offset) :
        /\ items' = ReloadItems(resp)
        /\ total' = SourceLen
        /\ Finally
        /\ inflight' = Settle(f)
        /\ last' = Did("reloadResolve", resp, SourceLen, {}, 0)
        /\ UNCHANGED <<isServerOut, rendered, props, mounted>>

\* the fetch sequencing against the well-behaved source, no handle mutation
NextPagedFetch ==
    \/ Mount
    \/ Reload
    \/ LoadMore
    \/ LoadMoreResolvePage
    \/ LoadMoreReject
    \/ ReloadResolvePage
    \/ ReloadReject
    \/ Render

PagedFetchSpec == InitKeyed /\ [][NextPagedFetch]_vars

\* the component against the well-behaved source, with the handle's
\* mutations that change total: remove and push (unshift changes length and
\* total as push does, replace changes neither)
NextPaged ==
    \/ Mount
    \/ Reload
    \/ LoadMore
    \/ LoadMoreResolvePage
    \/ LoadMoreReject
    \/ ReloadResolvePage
    \/ ReloadReject
    \/ Remove
    \/ Push
    \/ Render

PagedSpec == InitKeyed /\ [][NextPaged]_vars

\* the observer's callback, fired while the Collection is no longer than
\* the served sequence (this bounds the Collection: it does not stop a
\* call that was made from resolving)
LoadMoreWhileShort == Len(items) <= SourceLen /\ LoadMore

\* pagination alone: the observer calls loadMore, every call resolves with
\* a page, React commits every state change; no reload(), no mutation
NextPaging ==
    \/ Mount
    \/ LoadMoreWhileShort
    \/ LoadMoreResolvePage
    \/ ReloadResolvePage
    \/ Render

\* pagination with a trigger that keeps firing while its marker is observed,
\* calls that all resolve, and renders that are not postponed forever
PagingFairSpec ==
    /\ Init
    /\ [][NextPaging]_vars
    /\ WF_vars(Mount)
    /\ WF_vars(LoadMoreWhileShort)
    /\ WF_vars(LoadMoreResolvePage)
    /\ WF_vars(ReloadResolvePage)
    /\ WF_vars(Render)

TypeOK ==
    /\ items \in SeqsUpTo(MaxLen)
    /\ total \in (-TotalSlack)..(MaxTotal + TotalSlack)
    /\ isServerOut \in BOOLEAN
    /\ initialLoadComplete \in BOOLEAN
    /\ isLoadingRef \in BOOLEAN
    /\ itemsRef \in SeqsUpTo(MaxLen)
    /\ BagCardinality(inflight) <= MaxInflight

\* ------------------------------------------------- helpers of the claims
\* number of data-source calls of one kind that have not settled
CountInFlight(kind) ==
    LET fs == InFlight(kind)
        RECURSIVE Sum(_)
        Sum(S) == IF S = {} THEN 0
                  ELSE LET f == CHOOSE g \in S : TRUE
                       IN CopiesIn(f, inflight) + Sum(S \ {f})
    IN Sum(fs)

\* the k-th smallest member of a set of positions
NthOf(S, k) == CHOOSE i \in S : Cardinality({j \in S : j <= i}) = k

\* the subsequence of s at the positions in S, in order
AtPositions(s, S) == [k \in 1..Cardinality(S) |-> s[NthOf(S, k)]]

\* positions of resp whose key, computed at index base + position, repeats
\* no earlier position of resp
FirstOccurrences(resp) ==
    {i \in 1..Len(resp) :
        \A j \in 1..(i - 1) : Key(resp[j], j - 1) # Key(resp[i], i - 1)}

\* positions of resp whose key at index Len(prev) + position is no key of prev
NotStored(prev, resp) ==
    {i \in 1..Len(resp) :
        \A p \in 1..Len(prev) : Key(prev[p], p - 1) # Key(resp[i], Len(prev) + i - 1)}

\* ---------------------------------------------------------------- claims
\* C1: at most one data-source call issued by loadMore() is in flight at
\* any time, whatever reload() calls, mutations and settlements interleave.
C1_SingleFlight == CountInFlight("loadMore") <= 1

\* C2: right after a reload() resolves with (R, T) the Collection is R with
\* every later repeat of a key removed, first occurrences in order, total is
\* T and hasMore is (T = 0 or length < T), whatever the Collection held.
C2_ReloadRebuilds ==
    last.op = "reloadResolve" =>
        /\ items = AtPositions(last.arg, FirstOccurrences(last.arg))
        /\ total = last.T
        /\ HasMore(items, total) <=> (last.T = 0 \/ Len(items) < last.T)

\* C2 witness: a reload has resolved with a batch holding a repeated key
\* while another call was still in flight, and the repeat was dropped.
C2_Witness ==
    /\ last.op = "reloadResolve"
    /\ Len(last.arg) = 2
    /\ Len(items) = 1
    /\ inflight # EmptyBag

\* C3: when a loadMore() resolves with (B, T) on a Collection P, the new
\* Collection is P followed, in order, by the B[i] whose key at index
\* Len(P) + i is no key of P; repeats inside B stay; total becomes T.
C3_LoadMoreAppends ==
    [][last'.op = "loadMoreResolve" =>
         /\ items' = items \o AtPositions(last'.arg, NotStored(items, last'.arg))
         /\ total' = last'.T]_vars

\* C3 witness: under an item-valued key a loadMore() has resolved with a
\* batch of two equal items that both collided with the one stored item,
\* so the length stayed 1 while total took the response's value.
C3_Witness ==
    /\ last.op = "loadMoreResolve"
    /\ keyExtractor = "id"
    /\ Len(last.arg) = 2
    /\ Len(items) = 1
    /\ total = last.T

\* C4: a rejected loadMore() or reload() leaves Collection and total as they
\* were and sets the error flag; the handler completes (guard released).
C4_RejectKeepsItems ==
    [][last'.op \in {"loadMoreReject", "reloadReject"} =>
         /\ items' = items
         /\ total' = total
         /\ isServerOut'
         /\ ~isLoadingRef']_vars

\* C4 witness: a reload() has failed on a non-empty Collection, which is
\* still there with the error flag set.
C4_Witness ==
    /\ last.op = "reloadReject"
    /\ Len(items) > 0
    /\ isServerOut

\* C5: getItems() returns the Collection with every completed mutation
\* applied, in every state, also before the next render.
C5_GetItemsFresh == GetItemsValue = items

\* C6: remove(predicate) removes every matching entry, keeps the others in
\* order, and decrements total by exactly 1 whatever the number of matches.
C6_RemoveDecrementsOnce ==
    [][last'.op = "remove" =>
         LET pred == last'.pred
             stays == {p \in 1..Len(items) : items[p] \notin pred}
         IN /\ items' = AtPositions(items, stays)
            /\ total' = total - 1]_vars

\* C6 witness: a remove() whose predicate matches nothing has run on a
\* non-empty Collection and total went below the Collection's length.
C6_Witness ==
    /\ last.op = "remove"
    /\ last.pred = {}
    /\ Len(items) = 2
    /\ total = 1

\* C7: push(item) appends item as the last element, adds 1 to total and
\* makes no data-source call, also while a fetch is in flight.
C7_PushAppends ==
    [][last'.op = "push" =>
         /\ Len(items') = Len(items) + 1
         /\ \A p \in 1..Len(items) : items'[p] = items[p]
         /\ items'[Len(items')] = last'.arg[1]
         /\ total' = total + 1
         /\ inflight' = inflight]_vars

\* C7 witness: a push() has run on a non-empty Collection while a fetch was
\* in flight, and the pushed item differs from the first one.
C7_Witness ==
    /\ last.op = "push"
    /\ inflight # EmptyBag
    /\ Len(items) = 2
    /\ items[2] = last.arg[1]
    /\ items[1] # items[2]

\* C8: unshift(item) puts item first, followed by the previous Collection
\* in order, and adds 1 to total, also while a fetch is in flight.
C8_UnshiftPrepends ==
    [][last'.op = "unshift" =>
         /\ Len(items') = Len(items) + 1
         /\ items'[1] = last'.arg[1]
         /\ \A p \in 1..Len(items) : items'[p + 1] = items[p]
         /\ total' = total + 1]_vars

\* C8 witness: an unshift() has run on a non-empty Collection while a fetch
\* was in flight, and the new first item differs from the second.
C8_Witness ==
    /\ last.op = "unshift"
    /\ inflight # EmptyBag
    /\ Len(items) = 2
    /\ items[1] = last.arg[1]
    /\ items[1] # items[2]

\* C9: replace(predicate, item) puts item in place of every matching entry
\* and leaves the other entries, the length and order, total, the error
\* flag and the guard unchanged.
C9_ReplaceFrame ==
    [][last'.op = "replace" =>
         /\ Len(items') = Len(items)
         /\ \A p \in 1..Len(items) :
               items'[p] = IF items[p] \in last'.pred THEN last'.arg[1] ELSE items[p]
         /\ UNCHANGED <<total, isServerOut, isLoadingRef>>]_vars

\* C9 witness: a replace() whose predicate accepts everything has run on a
\* Collection of two entries, both of which now hold the new item.
C9_Witness ==
    /\ last.op = "replace"
    /\ last.pred = Item
    /\ Len(items) = 2
    /\ items[1] = last.arg[1]
    /\ items[2] = last.arg[1]

\* C10: loadMore() is a no-op when the guard is held or hasMore, evaluated
\* on the current Collection and total, is false: no data-source call, and
\* Collection, total, guard, error flag and first-resolution-observed stay.
C10_BlockedLoadMoreNoOp ==
    [][(last'.op = "loadMore" /\ (isLoadingRef \/ ~HasMore(items, total))) =>
         /\ inflight' = inflight
         /\ UNCHANGED <<items, total, isLoadingRef, isServerOut, initialLoadComplete>>]_vars

\* C11: every loadMore() that calls the data source passes as offset the
\* number of items the Collection holds at that moment, also when a push,
\* unshift, remove or settlement changed the Collection since the last render.
C11_OffsetIsCurrentLength ==
    [][(last'.op = "loadMore" /\ last'.calls = 1) =>
         inflight' = Issue(Fetch("loadMore", Len(items)))]_vars

\* C12: every reload() makes exactly one data-source call, at offset 0,
\* whatever the guard, hasMore and the error flag are, and every call that
\* was in flight stays in flight (it is neither awaited nor cancelled).
C12_ReloadAlwaysFetches ==
    [][last'.op = "reload" =>
         /\ inflight' = Issue(Fetch("reload", 0))
         /\ last'.calls = 1]_vars

\* C12 witness: reload() was called with the error flag set while a
\* loadMore() call was in flight; both calls are now in flight.
C12_Witness ==
    /\ last.op = "reload"
    /\ last.err
    /\ CountInFlight("loadMore") = 1
    /\ CopiesIn(Fetch("reload", 0), inflight) = 1

\* C13: when a loadMore() and a reload() were both in flight and both
\* succeed, the one that settles last decides. A loadMore() resolving with
\* (B, T) right after the reload resolved with R leaves R without its repeated
\* keys, followed by the items of B whose keys are not stored, and total T;
\* a reload resolving with (R, T) right after the loadMore leaves exactly R
\* without its repeated keys and total T.
C13_LastSettledWins ==
    [][/\ (last.op = "reloadResolve" /\ last'.op = "loadMoreResolve") =>
            LET kept == AtPositions(last.arg, FirstOccurrences(last.arg))
            IN /\ items' = kept \o AtPositions(last'.arg, NotStored(kept, last'.arg))
               /\ total' = last'.T
       /\ (last.op = "loadMoreResolve" /\ last'.op = "reloadResolve") =>
            /\ items' = AtPositions(last'.arg, FirstOccurrences(last'.arg))
            /\ total' = last'.T]_vars

\* C13 witness: a loadMore() has resolved right after the reload that was
\* called while it was in flight; under an item-valued key its first item
\* was already stored by the reload and its second item was appended.
C13_Witness ==
    /\ last.op = "loadMoreResolve"
    /\ last.after = "reloadResolve"
    /\ keyExtractor = "id"
    /\ Len(last.arg) = 2
    /\ Len(items) = 2
    /\ last.arg[1] = items[1]
    /\ last.arg[2] = items[2]
    /\ total = last.T

\* the handler runs that start a fetch, and those that end one in failure
StartsFetch(d) == d.op \in {"mount", "reload"} \/ (d.op = "loadMore" /\ d.calls = 1)
Rejections == {"loadMoreReject", "reloadReject"}

\* C14: every reload() and every loadMore() that issues a call leaves the
\* error flag false while its call is in flight; a rejection sets it (so a
\* failing retry goes true, false, true); every other handler run (replace,
\* remove, push, unshift, a blocked loadMore, a successful settlement, a
\* render) leaves the flag as it was.
C14_ErrorClearedAtStart ==
    [][/\ StartsFetch(last') =>
            /\ ~isServerOut'
            /\ BagCardinality(inflight') = BagCardinality(inflight) + 1
       /\ last'.op \in Rejections => isServerOut'
       /\ (~StartsFetch(last') /\ last'.op \notin Rejections) =>
            isServerOut' = isServerOut]_vars

\* C14 witness: a loadMore() retry found the error flag set by an earlier
\* failure and cleared it; its call has not settled yet.
C14_Witness ==
    /\ last.op = "loadMore"
    /\ last.calls = 1
    /\ last.err
    /\ ~isServerOut
    /\ CountInFlight("loadMore") = 1

\* C15: provided every data-source call settles, whenever a call is in
\* flight a state follows in which the guard is released and the first
\* resolution has been observed; and when the initial loadItems(0) rejects,
\* the Collection is empty, the error flag is set, the guard is released and
\* the first resolution has been observed.
C15_NoInfiniteLoading ==
    /\ (inflight # EmptyBag) ~> (~isLoadingRef /\ initialLoadComplete)
    /\ [][(last.op = "mount" /\ last'.op = "reloadReject") =>
            /\ items' = <<>>
            /\ isServerOut'
            /\ initialLoadComplete'
            /\ ~isLoadingRef']_vars

\* C15 witness: the initial call was rejected while a loadMore-free
\* component was still showing its loading placeholder; nothing is in
\* flight, the guard is released and the first resolution is observed.
C15_Witness ==
    /\ last.op = "reloadReject"
    /\ last.after = "mount"
    /\ items = <<>>
    /\ isServerOut
    /\ initialLoadComplete
    /\ ~isLoadingRef
    /\ inflight = EmptyBag

\* C16: from the call of reload() until that reload's own data-source call
\* settles, the first resolution counts as not observed: in every state
\* with a reload call in flight, initialLoadComplete is false.
C16_LoadingUntilOwnSettle ==
    CountInFlight("reload") > 0 => ~initialLoadComplete

\* C17: a component is constructed with an empty Collection and total 0 and
\* calls the data source for the first time from its mount effect, once, at
\* offset 0; when that call resolves with (R, T) before anything else
\* happens, the Collection is R without its repeated keys, hasMore is
\* (T = 0 or length < T), the error flag is false and the first resolution
\* has been observed.
C17_InitialLoad ==
    /\ ~mounted =>
         /\ items = <<>>
         /\ total = 0
         /\ inflight = EmptyBag
    /\ last.op = "mount" =>
         /\ items = <<>>
         /\ total = 0
         /\ last.calls = 1
         /\ inflight = SetToBag({Fetch("reload", 0)})
    /\ (last.op = "reloadResolve" /\ last.after = "mount") =>
         /\ items = AtPositions(last.arg, FirstOccurrences(last.arg))
         /\ HasMore(items, total) <=> (last.T = 0 \/ Len(items) < last.T)
         /\ ~isServerOut
         /\ initialLoadComplete

\* C17 witness: the first call has resolved with two items of one key and
\* total 2: one item is stored, hasMore holds, no error, loading is over.
C17_Witness ==
    /\ last.op = "reloadResolve"
    /\ last.after = "mount"
    /\ Len(last.arg) = 2
    /\ last.T = 2
    /\ Len(items) = 1
    /\ HasMore(items, total)
    /\ ~isServerOut
    /\ initialLoadComplete

\* C18: at most one boundary marker is mounted, and a mounted marker is the
\* start marker exactly in reverse mode; every render mounts a marker
\* exactly when the first resolution has been observed and hasMore holds;
\* so the observer calls loadMore() only through a mounted marker and only
\* while hasMore holds of the Collection and total.
C18_TriggerGating ==
    [][/\ ~(sentinelaStartRef' /\ sentinelaEndRef')
       /\ sentinelaStartRef' => reverse'
       /\ sentinelaEndRef' => ~reverse'
       /\ last'.op = "render" =>
            ((sentinelaStartRef' \/ sentinelaEndRef')
                <=> (initialLoadComplete' /\ HasMore(items', total')))
       /\ last'.op = "loadMore" =>
            /\ sentinelaStartRef \/ sentinelaEndRef
            /\ HasMore(items, total)]_vars

\* C19: while the data-source call of a reload() is in flight, a loadMore()
\* makes no data-source call, whatever settles or is called in between.
C19_NoLoadMoreDuringReload ==
    [][(last'.op = "loadMore" /\ CountInFlight("reload") > 0) =>
         /\ last'.calls = 0
         /\ inflight' = inflight]_vars

\* the handler runs that end a fetch in success
Resolutions == {"loadMoreResolve", "reloadResolve"}

\* C20: whenever the data-source call that settled last succeeded, the error
\* flag is false. The flag changes only when a fetch starts or fails (C14),
\* so this is stated of the state each successful settlement leaves.
C20_SuccessMeansNoError ==
    last.op \in Resolutions => ~isServerOut

\* C20 as amended: a successful settlement leaves the error flag as it found
\* it, so when the call that settled last succeeded the flag is false exactly
\* if it was false just before that settlement; it is still set when another
\* call had been rejected meanwhile.
C20_SuccessKeepsError ==
    last.op \in Resolutions => (isServerOut <=> last.err)

\* C20 witness: a loadMore() call has resolved while the call of a reload()
\* is still in flight; the flag was false before and is false after.
C20_Witness ==
    /\ last.op = "loadMoreResolve"
    /\ ~last.err
    /\ ~isServerOut
    /\ CountInFlight("reload") = 1
    /\ Len(items) > 0

\* the Collection is a prefix of the served sequence
IsPrefix(its) == Len(its) <= SourceLen /\ its = SubSeq(Source, 1, Len(its))

\* the offsets of the loadMore calls whose settlement this step is
SettledLoadMoreOffsets ==
    {f.offset : f \in {g \in InFlight("loadMore") : inflight' = Settle(g)}}

\* C21: with a source that answers offset k with a contiguous page of a
\* fixed duplicate-free sequence starting at k, item-valued keys and no
\* push, unshift, replace or remove, the Collection is a prefix of the
\* sequence in every state, whatever loadMore() and reload() interleave.
C21_PrefixPreserved == IsPrefix(items)

\* C21 as amended: under the same conditions every reload settlement leaves
\* a prefix of the sequence, and a loadMore settlement keeps a prefix a
\* prefix whenever its call's offset is not beyond the Collection's length
\* at that moment; only a page requested beyond the current end (a reload
\* resolved with a shorter Collection in between) leaves a gap.
C21_PrefixKeptByPagesInRange ==
    [][/\ last'.op = "reloadResolve" => IsPrefix(items')
       /\ (/\ last'.op = "loadMoreResolve"
           /\ IsPrefix(items)
           /\ \A k \in SettledLoadMoreOffsets : k <= Len(items)) => IsPrefix(items')
       /\ last'.op \notin Resolutions => items' = items]_vars

\* C21 witness: a loadMore() call has resolved right after a reload
\* resolved, with a page overlapping the stored items, and the Collection
\* is the whole sequence.
C21_Witness ==
    /\ last.op = "loadMoreResolve"
    /\ last.after = "reloadResolve"
    /\ Len(last.arg) = 2
    /\ last.arg[1] = items[Len(items) - 1]
    /\ items = Source
    /\ Len(itemsRef) = 1

\* C22: with a source whose responses report a total no smaller than the
\* number of items it can serve, in every state with total # 0 the
\* Collection holds at most total items, whatever push, unshift, replace and
\* remove interleave with the calls in flight and their settlements.
C22_LengthAtMostTotal == total # 0 => Len(items) <= total

\* C23: with responses that report total >= 0, total is never negative,
\* whatever remove, push, unshift, replace, loadMore and reload are called.
C23_TotalNonNegative == total >= 0

\* C24: with no key function configured, a successful loadMore() appends
\* its whole response batch and a successful reload() stores its whole
\* response, whatever the item values are.
C24_IndexKeysDropNothing ==
    [][keyExtractor = "none" =>
         /\ last'.op = "loadMoreResolve" => items' = items \o last'.arg
         /\ last'.op = "reloadResolve" => items' = last'.arg]_vars

\* C24 witness: with no key function a loadMore() has resolved with an
\* item equal to the one stored, and both are in the Collection.
C24_Witness ==
    /\ keyExtractor = "none"
    /\ last.op = "loadMoreResolve"
    /\ Len(last.arg) = 1
    /\ Len(items) = 2
    /\ items[1] = items[2]

\* C25: when the source serves a fixed duplicate-free sequence in non-empty
\* pages and reports its length as total, every call resolves, the trigger
\* keeps calling loadMore() and neither reload() nor a mutation is called,
\* then from some moment on the Collection is the whole sequence, hasMore is
\* false and no data-source call is in flight ever again.
C25_PaginationTerminates ==
    <>[](/\ items = Source
         /\ ~HasMore(items, total)
         /\ inflight = EmptyBag)

====
